---- MODULE Spec2Model ----
(***************************************************************************)
(* ggshield/output/output_handler.py: OutputHandler.                       *)
(*                                                                         *)
(* process_scan renders a ScanCollection to text with the abstract         *)
(* _process_scan_impl, delivers the text to self.output (a file opened     *)
(* "w+") or to standard output (click.echo), and returns the exit code     *)
(* computed by _get_exit_code from the collection's flags.                 *)
(*                                                                         *)
(* The program is synchronous and single-threaded: at most one call of     *)
(* process_scan is in progress, and pc is its position in the method.      *)
(* The file system and the standard output stream are the environment.     *)
(* Newline translation of text-mode files is the POSIX one (os.linesep is  *)
(* "\n"), so f.write stores the characters it is given.                    *)
(***************************************************************************)
EXTENDS Integers, Sequences, FiniteSets, TLC

\* ---------------------------------------------------------------- bounds

\* Longest report text a rendering strategy returns in the model.
MaxTextLen == 1

\* A new call starts only while fewer than MaxStdout characters were echoed.
MaxStdout == 2

\* ------------------------------------------------------------ value sets

Dispatchers == {1, 2}

\* Optional[T]: None is the empty tuple, a value x is <<x>>.
None == <<>>

Some(x) == <<x>>

\* The characters of a report: an ordinary one and the line feed.
Chars == {"a", "\n"}

Texts == UNION {[1..n -> Chars] : n \in 0..MaxTextLen}

\* File-system paths the environment can create; "" names no file.
Paths == {"out.txt"}

\* Values of the output constructor argument: None, "" and a path.
Outputs == {None, Some("")} \cup {Some(p) : p \in Paths}

Configs == [show_secrets : BOOLEAN, verbose : BOOLEAN, output : Outputs]

\* A ScanCollection as process_scan sees it: the two flags _get_exit_code
\* reads, and id, which stands for everything else a renderer may read.
Scans == [has_iac_result : BOOLEAN, has_new_secrets : BOOLEAN, id : {1, 2}]

\* The class attributes, the configuration of an instance before __init__.
ClassDefaults == [show_secrets |-> FALSE, verbose |-> FALSE, output |-> None]

Prefixes(t) == {SubSeq(t, 1, n) : n \in 0..Len(t)}

StrictPrefixes(t) == {SubSeq(t, 1, n) : n \in 0..(Len(t) - 1)}

\* ----------------------------------------------------------------- state

VARIABLES
    constructed,  \* the dispatchers __init__ has run on
    ctorArgs,     \* the arguments each was constructed with
    config,       \* self.show_secrets, self.verbose, self.output
    scan,         \* the aggregate the scan engine produced
    files,        \* the file system: existing path -> content
    stdout,       \* everything written to standard output so far
    pc,           \* position of the call in progress
    self,         \* the dispatcher the call is on
    text,         \* the local text of process_scan
    handle,       \* the file object f: "none", "open" or "closed"
    exc,          \* where the call raised: "none", "render", "open", ...
    result,       \* what the call returned: "none" or an ExitCode
    writes,       \* the sinks the call wrote in full, in order
    files0,       \* the file system when the call started
    stdout0,      \* standard output when the call started
    returned      \* per dispatcher, its report and exit code for scan

vars == <<constructed, ctorArgs, config, scan, files, stdout, pc, self, text,
          handle, exc, result, writes, files0, stdout0, returned>>

env == <<files, stdout>>

\* ---------------------------------------------------------- pure helpers

\* OutputHandler.__init__: the three assignments.
__init__(show_secrets, verbose, output) ==
    [show_secrets |-> show_secrets, verbose |-> verbose, output |-> output]


\* Mutation of Truthy: `if self.output is not None:`.
IsNotNone(o) == o # None

\* Python truth value of an Optional[str]: None and "" are false.
Truthy(o) == o # None /\ o[1] # ""

\* `if self.output:`
UseFile(d) == Truthy(config[d].output)


\* Mutation of get_exit_code: the has_new_secrets test is missing.
get_exit_code_iac_only(s) ==
    IF s.has_iac_result THEN "SCAN_FOUND_PROBLEMS" ELSE "SUCCESS"

\* OutputHandler._get_exit_code
get_exit_code(s) ==
    IF s.has_iac_result THEN "SCAN_FOUND_PROBLEMS"
    ELSE IF s.has_new_secrets THEN "SCAN_FOUND_PROBLEMS"
    ELSE "SUCCESS"


\* Mutation of click_echo: click.echo(text, nl=False).
click_echo_nonl(out, t) == out \o t

\* click.echo(text): the message, then one line feed.
click_echo(out, t) == out \o t \o <<"\n">>


\* Mutation of open_w: open(path, "a+"), which keeps the prior content.
open_append(fs, p) ==
    [q \in DOMAIN fs \cup {p} |-> IF q \in DOMAIN fs THEN fs[q] ELSE <<>>]

\* open(path, "w+"): the file exists afterwards and is empty.
open_w(fs, p) == [q \in DOMAIN fs \cup {p} |-> IF q = p THEN <<>> ELSE fs[q]]

\* f.write(t) at the current position of f, which is the end.
f_write(fs, p, t) == [fs EXCEPT ![p] = @ \o t]

\* ------------------------------------------------------------------ init

InitCall ==
    /\ pc = "idle"
    /\ self = 1
    /\ text = <<>>
    /\ handle = "none"
    /\ exc = "none"
    /\ result = "none"
    /\ writes = <<>>
    /\ files0 = files
    /\ stdout0 = stdout

InitEnv ==
    /\ \E existing \in SUBSET Paths : files \in [existing -> Texts]
    /\ stdout = <<>>
    /\ scan \in Scans
    /\ returned = [d \in Dispatchers |-> None]

\* One dispatcher constructed; the other name is never used.
Init ==
    /\ constructed = {1}
    /\ \E a \in Configs :
         ctorArgs = [d \in Dispatchers |-> IF d = 1 THEN a ELSE ClassDefaults]
    /\ config = [d \in Dispatchers |->
                   IF d \in constructed
                   THEN __init__(ctorArgs[d].show_secrets, ctorArgs[d].verbose,
                                 ctorArgs[d].output)
                   ELSE ClassDefaults]
    /\ InitEnv
    /\ InitCall

\* Two dispatchers constructed with the same arguments: they differ only in
\* their rendering strategy.
InitPair ==
    /\ constructed = Dispatchers
    /\ \E a \in Configs : ctorArgs = [d \in Dispatchers |-> a]
    /\ config = [d \in Dispatchers |->
                   __init__(ctorArgs[d].show_secrets, ctorArgs[d].verbose,
                            ctorArgs[d].output)]
    /\ InitEnv
    /\ InitCall

\* --------------------------------------------------------------- actions

Idle == pc \in {"idle", "done"}

\* The scan engine produces the next aggregate.
NewScan(s) ==
    /\ Idle
    /\ s # scan
    /\ scan' = s
    /\ returned' = [d \in Dispatchers |-> None]
    /\ pc' = "idle"
    /\ text' = <<>>
    /\ handle' = "none"
    /\ exc' = "none"
    /\ result' = "none"
    /\ writes' = <<>>
    /\ files0' = files
    /\ stdout0' = stdout
    /\ UNCHANGED <<constructed, ctorArgs, config, env, self>>

\* A caller enters d.process_scan(scan).
Call(d) ==
    /\ Idle
    /\ d \in constructed
    /\ Len(stdout) < MaxStdout
    /\ self' = d
    /\ pc' = "render"
    /\ text' = <<>>
    /\ handle' = "none"
    /\ exc' = "none"
    /\ result' = "none"
    /\ writes' = <<>>
    /\ files0' = files
    /\ stdout0' = stdout
    /\ returned' = [returned EXCEPT ![d] = None]
    /\ UNCHANGED <<constructed, ctorArgs, config, scan, env>>

\* text = self._process_scan_impl(scan): the strategy returns a string.
RenderReturns(t) ==
    /\ pc = "render"
    /\ text' = t
    /\ pc' = "deliver"
    /\ UNCHANGED <<constructed, ctorArgs, config, scan, env, self, handle, exc,
                   result, writes, files0, stdout0, returned>>


\* Mutation of RenderRaises: the error is caught and an empty report is
\* delivered in its place.
RenderRaisesSwallowed ==
    /\ pc = "render"
    /\ exc' = "render"
    /\ text' = <<>>
    /\ pc' = "deliver"
    /\ UNCHANGED <<constructed, ctorArgs, config, scan, env, self, handle,
                   result, writes, files0, stdout0, returned>>

\* text = self._process_scan_impl(scan): the strategy raises.
RenderRaises ==
    /\ pc = "render"
    /\ exc' = "render"
    /\ pc' = "done"
    /\ UNCHANGED <<constructed, ctorArgs, config, scan, env, self, text, handle,
                   result, writes, files0, stdout0, returned>>

\* with open(self.output, "w+") as f: the file is created or truncated.
OpenOk ==
    /\ pc = "deliver"
    /\ UseFile(self)
    /\ config[self].output[1] \in Paths
    /\ files' = open_w(files, config[self].output[1])
    /\ handle' = "open"
    /\ pc' = "write"
    /\ UNCHANGED <<constructed, ctorArgs, config, scan, stdout, self, text, exc,
                   result, writes, files0, stdout0, returned>>

\* open raises OSError (permissions, missing directory, not a path).
OpenFails ==
    /\ pc = "deliver"
    /\ UseFile(self)
    /\ exc' = "open"
    /\ pc' = "done"
    /\ UNCHANGED <<constructed, ctorArgs, config, scan, env, self, text, handle,
                   result, writes, files0, stdout0, returned>>

\* f.write(text)
WriteOk ==
    /\ pc = "write"
    /\ files' = f_write(files, config[self].output[1], text)
    /\ writes' = Append(writes, "file")
    /\ pc' = "exit"
    /\ UNCHANGED <<constructed, ctorArgs, config, scan, stdout, self, text,
                   handle, exc, result, files0, stdout0, returned>>


\* Mutation of WriteFails: the OSError is caught inside the with block and
\* the call goes on as if the write had succeeded.
WriteFailsSwallowed ==
    /\ pc = "write"
    /\ \E part \in StrictPrefixes(text) :
         files' = f_write(files, config[self].output[1], part)
    /\ exc' = "write"
    /\ pc' = "exit"
    /\ UNCHANGED <<constructed, ctorArgs, config, scan, stdout, self, text,
                   handle, result, writes, files0, stdout0, returned>>

\* f.write(text) raises OSError after part of the text (disk full).
WriteFails ==
    /\ pc = "write"
    /\ \E part \in StrictPrefixes(text) :
         files' = f_write(files, config[self].output[1], part)
    /\ exc' = "write"
    /\ pc' = "unwind"
    /\ UNCHANGED <<constructed, ctorArgs, config, scan, stdout, self, text,
                   handle, result, writes, files0, stdout0, returned>>


\* Mutation of ExitOk: the else is missing, click.echo(text) follows the
\* with block.
ExitOkThenEcho ==
    /\ pc = "exit"
    /\ handle' = "closed"
    /\ stdout' = click_echo(stdout, text)
    /\ writes' = Append(writes, "stdout")
    /\ pc' = "exit_code"
    /\ UNCHANGED <<constructed, ctorArgs, config, scan, files, self, text, exc,
                   result, files0, stdout0, returned>>

\* Leaving the with block normally: f.__exit__ closes f.
ExitOk ==
    /\ pc = "exit"
    /\ handle' = "closed"
    /\ pc' = "exit_code"
    /\ UNCHANGED <<constructed, ctorArgs, config, scan, env, self, text, exc,
                   result, writes, files0, stdout0, returned>>

\* Leaving the with block normally, and the flush of close raises OSError:
\* f is closed all the same and only part of the text reached the file.
ExitCloseFails ==
    /\ pc = "exit"
    /\ handle' = "closed"
    /\ \E part \in Prefixes(text) :
         files' = [files EXCEPT ![config[self].output[1]] = part]
    /\ exc' = "close"
    /\ pc' = "done"
    /\ UNCHANGED <<constructed, ctorArgs, config, scan, stdout, self, text,
                   result, writes, files0, stdout0, returned>>


\* Mutation of Unwind: f = open(...); f.write(text); f.close() without a
\* with block, so that the exception skips the close.
UnwindLeaks ==
    /\ pc = "unwind"
    /\ pc' = "done"
    /\ UNCHANGED <<constructed, ctorArgs, config, scan, env, self, text, handle,
                   exc, result, writes, files0, stdout0, returned>>

\* Leaving the with block by the exception of f.write: f.__exit__ closes f
\* and the exception goes on to the caller.
Unwind ==
    /\ pc = "unwind"
    /\ handle' = "closed"
    /\ pc' = "done"
    /\ UNCHANGED <<constructed, ctorArgs, config, scan, env, self, text, exc,
                   result, writes, files0, stdout0, returned>>

\* click.echo(text)
Echo ==
    /\ pc = "deliver"
    /\ ~UseFile(self)
    /\ stdout' = click_echo(stdout, text)
    /\ writes' = Append(writes, "stdout")
    /\ pc' = "exit_code"
    /\ UNCHANGED <<constructed, ctorArgs, config, scan, files, self, text,
                   handle, exc, result, files0, stdout0, returned>>

\* click.echo(text) raises (closed pipe) after part of the output.
EchoFails ==
    /\ pc = "deliver"
    /\ ~UseFile(self)
    /\ \E part \in StrictPrefixes(click_echo(<<>>, text)) :
         stdout' = stdout \o part
    /\ exc' = "echo"
    /\ pc' = "done"
    /\ UNCHANGED <<constructed, ctorArgs, config, scan, files, self, text,
                   handle, result, writes, files0, stdout0, returned>>


\* Mutation of Return: the exit code is taken from the report, an empty
\* report meaning SUCCESS.
ReturnCodeFromText ==
    /\ pc = "exit_code"
    /\ result' = IF text = <<>> THEN "SUCCESS" ELSE "SCAN_FOUND_PROBLEMS"
    /\ returned' = [returned EXCEPT
                      ![self] = Some([text |-> text, code |-> result'])]
    /\ pc' = "done"
    /\ UNCHANGED <<constructed, ctorArgs, config, scan, env, self, text, handle,
                   exc, writes, files0, stdout0>>

\* Mutation of Return: the destination is reset once the report is out.
ReturnClearsOutput ==
    /\ pc = "exit_code"
    /\ result' = get_exit_code(scan)
    /\ returned' = [returned EXCEPT
                      ![self] = Some([text |-> text, code |-> result'])]
    /\ config' = [config EXCEPT ![self].output = None]
    /\ pc' = "done"
    /\ UNCHANGED <<constructed, ctorArgs, scan, env, self, text, handle,
                   exc, writes, files0, stdout0>>

\* return OutputHandler._get_exit_code(scan)
Return ==
    /\ pc = "exit_code"
    /\ result' = get_exit_code(scan)
    /\ returned' = [returned EXCEPT
                      ![self] = Some([text |-> text, code |-> result'])]
    /\ pc' = "done"
    /\ UNCHANGED <<constructed, ctorArgs, config, scan, env, self, text, handle,
                   exc, writes, files0, stdout0>>

Next ==
    \/ \E s \in Scans : NewScan(s)
    \/ \E d \in Dispatchers : Call(d)
    \/ \E t \in Texts : RenderReturns(t)
    \/ RenderRaises
    \/ OpenOk
    \/ OpenFails
    \/ WriteOk
    \/ WriteFails
    \/ ExitOk
    \/ ExitCloseFails
    \/ Unwind
    \/ Echo
    \/ EchoFails
    \/ Return

Spec == Init /\ [][Next]_vars

SpecPair == InitPair /\ [][Next]_vars

\* ------------------------------------------------------------ properties

\* The call in progress has returned an exit code.
Returned == pc = "done" /\ result # "none"

\* The call in progress has ended by raising to its caller.
Raised == pc = "done" /\ result = "none"

\* The destination path of the dispatcher the call is on.
Dest == config[self].output

\* C1: every call that returns, returns SCAN_FOUND_PROBLEMS when
\* has_iac_result or has_new_secrets is true and SUCCESS when both are
\* false, whatever the aggregate's other content (id), the report text and
\* the destination.
C1_ExitCodeFromFlags ==
    Returned =>
        result = IF scan.has_iac_result \/ scan.has_new_secrets
                 THEN "SCAN_FOUND_PROBLEMS"
                 ELSE "SUCCESS"

C1_Witness ==
    /\ Returned
    /\ ~scan.has_iac_result
    /\ scan.has_new_secrets
    /\ result = "SCAN_FOUND_PROBLEMS"

\* C2: once the rendering step has raised, the call is over and has raised
\* to its caller: no exit code, no file opened, created or modified, nothing
\* written to standard output.
C2_RenderErrorPropagates ==
    exc = "render" =>
        /\ Raised
        /\ handle = "none"
        /\ writes = <<>>
        /\ files = files0
        /\ stdout = stdout0

C2_Witness ==
    /\ exc = "render"
    /\ pc = "done"
    /\ Dest \in {Some(p) : p \in Paths}
    /\ Dest[1] \notin DOMAIN files

\* C3: a failure of open, of f.write or of the closing flush is never
\* followed by an exit code, and a call that returns an exit code has
\* delivered the whole report to its destination.
C3_DeliveryErrorPropagates ==
    /\ exc \in {"open", "write", "close"} => result = "none"
    /\ Returned =>
         /\ exc = "none"
         /\ IF Dest # None /\ Dest[1] # ""
            THEN Dest[1] \in DOMAIN files /\ files[Dest[1]] = text
            ELSE stdout = stdout0 \o text \o <<"\n">>

C3_Witness ==
    /\ Raised
    /\ exc = "write"
    /\ Dest[1] \in DOMAIN files
    /\ files[Dest[1]] # text

\* C4 as stated: every call that has ended, by return or by raising, made
\* exactly one delivery.
C4_EveryCallDeliversOnce == pc = "done" => Len(writes) = 1

\* C4 amended: a call that returns an exit code made exactly one delivery,
\* to the file or to standard output; a call that raises made at most one;
\* no call delivers to both.
C4_ReturnedCallDeliversOnce ==
    /\ Len(writes) <= 1
    /\ Returned => Len(writes) = 1
    /\ Returned /\ UseFile(self) => writes = <<"file">> /\ stdout = stdout0
    /\ Returned /\ ~UseFile(self) => writes = <<"stdout">> /\ files = files0

C4_Witness ==
    /\ Returned
    /\ writes = <<"file">>
    /\ stdout = stdout0

\* C5 as stated: whenever a destination is configured (self.output is not
\* None) and the call returns, the file at that path holds exactly the
\* report and standard output is untouched.
C5_ConfiguredPathHoldsText ==
    Returned /\ Dest # None =>
        /\ Dest[1] \in DOMAIN files
        /\ files[Dest[1]] = text
        /\ stdout = stdout0

\* C5 amended: whenever a non-empty destination path is configured and the
\* call returns, the file at that path holds exactly the report (nothing
\* appended, nothing of its prior content kept) and standard output is
\* untouched.
C5_NonEmptyPathHoldsText ==
    Returned /\ Dest # None /\ Dest[1] # "" =>
        /\ Dest[1] \in DOMAIN files
        /\ files[Dest[1]] = text
        /\ stdout = stdout0

C5_Witness ==
    /\ Returned
    /\ Dest # None
    /\ Dest[1] \in DOMAIN files0
    /\ files0[Dest[1]] # <<>>
    /\ files0[Dest[1]] # text
    /\ files[Dest[1]] = text

\* C6: with no destination configured (self.output is None), a call that
\* returns has appended the report and exactly one line feed to standard
\* output, has touched no file, and returns the exit code of the flags.
C6_StdoutGetsTextAndNewline ==
    Returned /\ Dest = None =>
        /\ stdout = stdout0 \o text \o <<"\n">>
        /\ files = files0
        /\ handle = "none"
        /\ result = IF scan.has_iac_result \/ scan.has_new_secrets
                    THEN "SCAN_FOUND_PROBLEMS"
                    ELSE "SUCCESS"

C6_Witness ==
    /\ Returned
    /\ Dest = None
    /\ text = <<"\n">>
    /\ stdout = stdout0 \o <<"\n", "\n">>

\* C7: two dispatchers constructed alike, whose rendering strategies
\* returned text for the same aggregate, returned the same exit code.
C7_ExitCodeIgnoresRenderer ==
    \A d1 \in constructed : \A d2 \in constructed :
        /\ returned[d1] # None
        /\ returned[d2] # None
        /\ config[d1] = config[d2]
        => returned[d1][1].code = returned[d2][1].code

C7_Witness ==
    /\ constructed = Dispatchers
    /\ returned[1] # None
    /\ returned[2] # None
    /\ config[1] = config[2]
    /\ returned[1][1].text # returned[2][1].text

\* C8: when a call has ended, by return or by raising, the file handle is
\* not open: a handle that was obtained has been closed.
C8_HandleClosedAfterCall ==
    pc \in {"idle", "done"} =>
        /\ handle # "open"
        /\ exc \in {"write", "close"} => handle = "closed"
        /\ Returned /\ UseFile(self) => handle = "closed"

C8_Witness ==
    /\ Raised
    /\ exc = "write"
    /\ handle = "closed"

\* C9: the configuration of every constructed dispatcher equals its
\* constructor arguments, before, during and after every call.
C9_ConfigUnchanged ==
    \A d \in constructed :
        /\ config[d].show_secrets = ctorArgs[d].show_secrets
        /\ config[d].verbose = ctorArgs[d].verbose
        /\ config[d].output = ctorArgs[d].output

C9_Witness ==
    /\ Returned
    /\ ctorArgs[self].show_secrets
    /\ ctorArgs[self].verbose
    /\ ctorArgs[self].output # None
    /\ writes = <<"file">>

\* C10: a call on a dispatcher constructed with output "" never opens a
\* file and changes none, and when it returns it has appended the report
\* and one line feed to standard output, as with output None.
C10_EmptyPathIsStdout ==
    pc # "idle" /\ Dest = Some("") =>
        /\ pc \notin {"write", "exit", "unwind"}
        /\ handle = "none"
        /\ exc \notin {"open", "write", "close"}
        /\ files = files0
        /\ Returned => stdout = stdout0 \o text \o <<"\n">>

C10_Witness ==
    /\ Returned
    /\ Dest = Some("")
    /\ writes = <<"stdout">>
    /\ stdout # stdout0

====
